---- MODULE Spec2Model ----
(***************************************************************************)
(* CppLogging: the asynchronous wait logging processor                     *)
(* (source/logging/processors/async_wait_processor.cpp).                   *)
(*                                                                         *)
(* Producer threads call ProcessRecord and Flush, which enqueue into a     *)
(* bounded queue; one background thread runs ProcessBufferedRecords, which *)
(* dequeues batches and forwards them to the downstream chain              *)
(* (Processor::ProcessRecord, Processor::Flush); the destructor enqueues   *)
(* a stop record and joins the thread.                                     *)
(*                                                                         *)
(* The queue (_queue) and the fatal-error channel (fatality) are           *)
(* collaborators whose code is not part of the source file: they are       *)
(* modelled from their documented contract.                                *)
(*                                                                         *)
(* Time is counted in ticks of half a second, and the 64-bit words of the  *)
(* timestamp arithmetic are WordBits wide, so that TLC can enumerate them. *)
(***************************************************************************)
EXTENDS Integers, Sequences, FiniteSets, TLC

\* ------------------------------------------------------------------ bounds

\* The capacity given to the constructor.
Capacity == 2

\* The initial reserve given to the constructor (a size hint).
Initial == 3

\* The number of producer calls (ProcessRecord, Flush) of one run.
MaxCalls == 3

\* The width of the timestamp words (uint64_t / int64_t in the source).
WordBits == 5

\* Ticks per second: the unit of Record::timestamp is half a second.
TicksPerSecond == 2

Producers == {1, 2}

\* The timestamps producers give to data records (>= 2: 0 and 1 are reserved).
DataTimestamps == {4, 7}

Modulus == 2 ^ WordBits

\* The thread of the destructor, as the producer of the stop record.
Owner == "owner"

VARIABLES
    queue,              \* _queue: the records enqueued and not yet dequeued
    records,            \* thread_local records: the batch being processed
    idx,                \* position of the range-for over records
    pc,                 \* position of the background thread
    timestamp,          \* thread_local timestamp: maximum of the previous batch
    record_timestamp,   \* record_timestamp: maximum of the current batch
    dtor,               \* position of the destructor
    calls,              \* number of producer calls so far
    accepted,           \* history: records Enqueue accepted, in order
    downstream,         \* history: downstream calls that returned, in order
    hooks,              \* history: number of calls of each hook / channel
    dequeues,           \* history: number of Dequeue calls that returned
    last,               \* history: the last producer call and what it returned
    preDtor,            \* history: ids accepted before the destructor began
    closed              \* _queue: the queue has been closed for good

vars == <<queue, records, idx, pc, timestamp, record_timestamp, dtor, calls,
          accepted, downstream, hooks, dequeues, last, preDtor, closed>>

\* ---------------------------------------------------------------- records

StopTimestamp == 0

FlushTimestamp == 1

Record(id, ts, p) == [id |-> id, timestamp |-> ts, producer |-> p]

SeqIds(s) == {s[i].id : i \in 1..Len(s)}

\* ------------------------------------------------------------------ queue

\* The capacity the constructor hands to the queue: _queue(capacity, initial).
QueueCapacitySwapped == Initial

QueueCapacity == Capacity

\* _queue.Enqueue: never blocks; rejects when the queue is at capacity, and
\* once the queue is closed (nothing further will ever arrive).
Enqueue(q, rec) ==
    IF ~closed /\ Len(q) < QueueCapacity
    THEN [queue |-> Append(q, rec), ok |-> TRUE]
    ELSE [queue |-> q, ok |-> FALSE]

\* AsyncWaitProcessor::EnqueueRecord: return _queue.Enqueue(record).
EnqueueRecord(q, rec) == Enqueue(q, rec)

\* ------------------------------------------------------- timestamp algebra

\* uint64_t subtraction: record_timestamp - timestamp.
Sub64(a, b) == (a - b + Modulus) % Modulus

\* (int64_t) cast of an unsigned word.
ToSigned(x) == IF x >= Modulus \div 2 THEN x - Modulus ELSE x

\* Timespan::seconds(): the whole seconds of a signed duration (truncated).
Seconds(d) == IF d >= 0 THEN d \div TicksPerSecond ELSE -((-d) \div TicksPerSecond)

\* The auto-flush condition of the drain loop.
AutoFlushDue(rt, cached) == Seconds(ToSigned(Sub64(rt, cached))) > 1

\* The latest record timestamp of the batch.
MaxTimestamp(rt, ts) == IF ts > rt THEN ts ELSE rt

\* ------------------------------------------------------------------- init

Init ==
    /\ queue = <<>>
    /\ records = <<>>
    /\ idx = 1
    /\ pc = "start"
    /\ timestamp = 0
    /\ record_timestamp = 0
    /\ dtor = "none"
    /\ calls = 0
    /\ accepted = <<>>
    /\ downstream = <<>>
    /\ hooks = [initialize |-> 0, cleanup |-> 0, fatal |-> 0]
    /\ dequeues = 0
    /\ last = [op |-> "construct", id |-> 0, ret |-> "void"]
    /\ preDtor = {}
    /\ closed = FALSE

\* The process runs until the fatal-error channel aborts it.
Running == pc # "aborted"

\* -------------------------------------------------------------- producers

BoolRet(ok) == IF ok THEN "true" ELSE "false"

\* What ProcessRecord returns: return EnqueueRecord(record).
ProcessRecordReturnTrue(ok) == "true"

ProcessRecordReturn(ok) == BoolRet(ok)

\* bool AsyncWaitProcessor::ProcessRecord(Record& record), called by
\* producer p with a data record of timestamp ts.
ProcessRecord(p, ts) ==
    /\ Running
    /\ dtor # "returned"
    /\ calls < MaxCalls
    /\ LET rec == Record(calls + 1, ts, p)
           res == EnqueueRecord(queue, rec)
       IN  /\ queue' = res.queue
           /\ accepted' = IF res.ok THEN Append(accepted, rec) ELSE accepted
           /\ last' = [op |-> "ProcessRecord", id |-> rec.id,
                       ret |-> ProcessRecordReturn(res.ok)]
    /\ calls' = calls + 1
    /\ UNCHANGED <<records, idx, pc, timestamp, record_timestamp, dtor,
                   downstream, hooks, dequeues, preDtor, closed>>

\* What Flush returns: it is a void function, the result of EnqueueRecord
\* is discarded.
FlushReturn(ok) == "void"

\* void AsyncWaitProcessor::Flush(), with a synchronous fall-back when the
\* flush record is rejected (not what the source does).
FlushFallback(p) ==
    /\ Running
    /\ dtor # "returned"
    /\ calls < MaxCalls
    /\ LET rec == Record(calls + 1, FlushTimestamp, p)
           res == EnqueueRecord(queue, rec)
       IN  /\ queue' = res.queue
           /\ accepted' = IF res.ok THEN Append(accepted, rec) ELSE accepted
           /\ last' = [op |-> "Flush", id |-> rec.id, ret |-> FlushReturn(res.ok)]
           /\ downstream' =
                  IF res.ok THEN downstream
                  ELSE Append(downstream, [kind |-> "Flush", id |-> rec.id,
                                           timestamp |-> FlushTimestamp, auto |-> FALSE])
    /\ calls' = calls + 1
    /\ UNCHANGED <<records, idx, pc, timestamp, record_timestamp, dtor,
                   hooks, dequeues, preDtor, closed>>

\* void AsyncWaitProcessor::Flush(), called by producer p.
Flush(p) ==
    /\ Running
    /\ dtor # "returned"
    /\ calls < MaxCalls
    /\ LET rec == Record(calls + 1, FlushTimestamp, p)
           res == EnqueueRecord(queue, rec)
       IN  /\ queue' = res.queue
           /\ accepted' = IF res.ok THEN Append(accepted, rec) ELSE accepted
           /\ last' = [op |-> "Flush", id |-> rec.id, ret |-> FlushReturn(res.ok)]
    /\ calls' = calls + 1
    /\ UNCHANGED <<records, idx, pc, timestamp, record_timestamp, dtor,
                   downstream, hooks, dequeues, preDtor, closed>>

\* ------------------------------------------------------------- destructor

\* ~AsyncWaitProcessor, first half: stop.timestamp = 0; EnqueueRecord(stop).
\* The result of EnqueueRecord is discarded.
DtorEnqueue ==
    /\ Running
    /\ dtor = "none"
    /\ LET rec == Record(0, StopTimestamp, Owner)
           res == EnqueueRecord(queue, rec)
       IN  /\ queue' = res.queue
           /\ accepted' = IF res.ok THEN Append(accepted, rec) ELSE accepted
    /\ preDtor' = SeqIds(accepted)
    /\ dtor' = "join"
    /\ UNCHANGED <<records, idx, pc, timestamp, record_timestamp, calls,
                   downstream, hooks, dequeues, last, closed>>

\* A destructor that does not wait for the thread (not what the source does).
DtorJoinNoWait ==
    /\ Running
    /\ dtor = "join"
    /\ dtor' = "returned"
    /\ UNCHANGED <<queue, records, idx, pc, timestamp, record_timestamp, calls,
                   accepted, downstream, hooks, dequeues, preDtor, last, closed>>

\* ~AsyncWaitProcessor, second half: _thread.join() returns once the thread
\* function has returned.
DtorJoin ==
    /\ Running
    /\ dtor = "join"
    /\ pc = "done"
    /\ dtor' = "returned"
    /\ UNCHANGED <<queue, records, idx, pc, timestamp, record_timestamp, calls,
                   accepted, downstream, hooks, dequeues, preDtor, last, closed>>

\* ------------------------------------------------------ background thread

\* _queue.Dequeue(records): blocks until the queue holds a record, then
\* moves all the records of the queue into the buffer, in order.
Dequeue(q) == [records |-> q, queue |-> <<>>]

\* The record the range-for is at: for (auto& record : records).
CurrentRecordReversed(recs, i) == recs[Len(recs) + 1 - i]

CurrentRecord(recs, i) == recs[i]

\* A loop that tells the sentinels of the processor itself from the records
\* of producers (not what the source does): a producer's record is data.
ClassifyBySender(rec) ==
    IF rec.producer \in Producers /\ rec.timestamp # FlushTimestamp THEN "data"
    ELSE IF rec.timestamp = StopTimestamp THEN "stop"
    ELSE IF rec.timestamp = FlushTimestamp THEN "flush"
    ELSE "data"

\* The three kinds of record the loop tells apart by the timestamp.
Classify(rec) ==
    IF rec.timestamp = StopTimestamp THEN "stop"
    ELSE IF rec.timestamp = FlushTimestamp THEN "flush"
    ELSE "data"

InBatch == pc = "batch" /\ idx <= Len(records)

DownstreamCall(kind, rec, auto) ==
    [kind |-> kind, id |-> rec.id, timestamp |-> rec.timestamp, auto |-> auto]

\* The flush of the auto-flush period is no record's.
NoRecord == Record(0, FlushTimestamp, Owner)

\* A thread that starts its loop without calling the initialize handler
\* (not what the source does).
ThreadInitializeSkipped ==
    /\ pc = "start"
    /\ pc' = "dequeue"
    /\ UNCHANGED <<queue, records, idx, timestamp, record_timestamp, dtor, calls,
                   accepted, downstream, hooks, dequeues, preDtor, last, closed>>

\* ProcessBufferedRecords, up to the loop: on_thread_initialize(), and
\* records.reserve(_queue.capacity()).
ThreadInitialize ==
    /\ pc = "start"
    /\ hooks' = [hooks EXCEPT !.initialize = @ + 1]
    /\ pc' = "dequeue"
    /\ UNCHANGED <<queue, records, idx, timestamp, record_timestamp, dtor, calls,
                   accepted, downstream, dequeues, preDtor, last, closed>>

\* if (!_queue.Dequeue(records)) return; uint64_t record_timestamp = 0.
DequeueBatch ==
    /\ pc = "dequeue"
    /\ queue # <<>>
    /\ records' = Dequeue(queue).records
    /\ queue' = Dequeue(queue).queue
    /\ idx' = 1
    /\ record_timestamp' = 0
    /\ dequeues' = dequeues + 1
    /\ pc' = "batch"
    /\ UNCHANGED <<timestamp, dtor, calls, accepted, downstream, hooks, preDtor, last, closed>>

\* A Dequeue whose false result is taken for a failure (not what the source
\* does): the thread goes to the fatal-error channel.
DequeueClosedThrow ==
    /\ pc = "dequeue"
    /\ queue = <<>>
    /\ closed
    /\ pc' = "catch"
    /\ UNCHANGED <<queue, records, idx, timestamp, record_timestamp, dtor, calls,
                   accepted, downstream, hooks, dequeues, preDtor, last, closed>>

\* if (!_queue.Dequeue(records)) return; with Dequeue returning false: the
\* queue is closed and has nothing left. The thread function returns from
\* inside the try block.
DequeueClosed ==
    /\ pc = "dequeue"
    /\ queue = <<>>
    /\ closed
    /\ pc' = "done"
    /\ UNCHANGED <<queue, records, idx, timestamp, record_timestamp, dtor, calls,
                   accepted, downstream, hooks, dequeues, preDtor, last, closed>>

\* The queue is closed for good by its owner: from now on Enqueue rejects
\* and, once the queue is empty, Dequeue returns false.
CloseQueue ==
    /\ ~closed
    /\ closed' = TRUE
    /\ UNCHANGED <<queue, records, idx, pc, timestamp, record_timestamp, dtor,
                   calls, accepted, downstream, hooks, dequeues, preDtor, last>>

\* A stop record that leaves the range-for like a break (not what the source
\* does): the auto-flush step and the caching of the timestamp still run.
BatchStopFlush ==
    /\ InBatch
    /\ Classify(CurrentRecord(records, idx)) = "stop"
    /\ downstream' = IF AutoFlushDue(record_timestamp, timestamp)
                     THEN Append(downstream, DownstreamCall("Flush", NoRecord, TRUE))
                     ELSE downstream
    /\ timestamp' = record_timestamp
    /\ pc' = "done"
    /\ UNCHANGED <<queue, records, idx, record_timestamp, dtor, calls,
                   accepted, hooks, dequeues, preDtor, last, closed>>

\* A stop record that is skipped (not what the source does).
BatchStopContinue ==
    /\ InBatch
    /\ Classify(CurrentRecord(records, idx)) = "stop"
    /\ idx' = idx + 1
    /\ UNCHANGED <<queue, records, pc, timestamp, record_timestamp, dtor, calls,
                   accepted, downstream, hooks, dequeues, preDtor, last, closed>>

\* if (record.timestamp == 0) return: the thread function returns, from
\* inside the try block.
BatchStop ==
    /\ InBatch
    /\ Classify(CurrentRecord(records, idx)) = "stop"
    /\ pc' = "done"
    /\ UNCHANGED <<queue, records, idx, timestamp, record_timestamp, dtor, calls,
                   accepted, downstream, hooks, dequeues, preDtor, last, closed>>

\* A flush record that is passed over without the downstream call (not what
\* the source does).
BatchFlushSkipped ==
    /\ InBatch
    /\ Classify(CurrentRecord(records, idx)) = "flush"
    /\ idx' = idx + 1
    /\ UNCHANGED <<queue, records, pc, timestamp, record_timestamp, dtor, calls,
                   accepted, downstream, hooks, dequeues, preDtor, last, closed>>

\* if (record.timestamp == 1) { Processor::Flush(); continue; }
\* The downstream call returns, or throws into catch (...).
BatchFlush ==
    /\ InBatch
    /\ Classify(CurrentRecord(records, idx)) = "flush"
    /\ \E thrown \in BOOLEAN :
          IF thrown
          THEN /\ pc' = "catch"
               /\ UNCHANGED <<idx, downstream>>
          ELSE /\ downstream' = Append(downstream,
                     DownstreamCall("Flush", CurrentRecord(records, idx), FALSE))
               /\ idx' = idx + 1
               /\ pc' = pc
    /\ UNCHANGED <<queue, records, timestamp, record_timestamp, dtor, calls,
                   accepted, hooks, dequeues, preDtor, last, closed>>

\* Processor::ProcessRecord(record); then the latest record timestamp.
\* The downstream call returns, or throws into catch (...).
BatchData ==
    /\ InBatch
    /\ Classify(CurrentRecord(records, idx)) = "data"
    /\ \E thrown \in BOOLEAN :
          IF thrown
          THEN /\ pc' = "catch"
               /\ UNCHANGED <<idx, downstream, record_timestamp>>
          ELSE /\ downstream' = Append(downstream,
                     DownstreamCall("ProcessRecord", CurrentRecord(records, idx), FALSE))
               /\ record_timestamp' =
                     MaxTimestamp(record_timestamp, CurrentRecord(records, idx).timestamp)
               /\ idx' = idx + 1
               /\ pc' = pc
    /\ UNCHANGED <<queue, records, timestamp, dtor, calls,
                   accepted, hooks, dequeues, preDtor, last, closed>>

\* A loop that ends after its first batch (not what the source does).
BatchEndReturn ==
    /\ pc = "batch"
    /\ idx > Len(records)
    /\ timestamp' = record_timestamp
    /\ pc' = "done"
    /\ UNCHANGED <<queue, records, idx, record_timestamp, dtor, calls,
                   accepted, downstream, hooks, dequeues, preDtor, last, closed>>

\* After the range-for: the auto-flush period, then timestamp =
\* record_timestamp, and the next iteration of while (true).
BatchEnd ==
    /\ pc = "batch"
    /\ idx > Len(records)
    /\ IF AutoFlushDue(record_timestamp, timestamp)
       THEN \E thrown \in BOOLEAN :
               IF thrown
               THEN /\ pc' = "catch"
                    /\ UNCHANGED <<downstream, timestamp>>
               ELSE /\ downstream' = Append(downstream,
                          DownstreamCall("Flush", NoRecord, TRUE))
                    /\ timestamp' = record_timestamp
                    /\ pc' = "dequeue"
       ELSE /\ timestamp' = record_timestamp
            /\ pc' = "dequeue"
            /\ UNCHANGED downstream
    /\ UNCHANGED <<queue, records, idx, record_timestamp, dtor, calls,
                   accepted, hooks, dequeues, preDtor, last, closed>>

\* fatality(...): the fatal-error channel terminates the process, or
\* escalates otherwise and returns to its caller.
FatalityOutcomes == {"aborted", "returned"}

\* catch (...) { fatality(...); }: when fatality returns, the function goes
\* on after the catch block, to the thread cleanup handler.
Catch ==
    /\ pc = "catch"
    /\ hooks' = [hooks EXCEPT !.fatal = @ + 1]
    /\ \E outcome \in FatalityOutcomes :
          pc' = IF outcome = "aborted" THEN "aborted" ELSE "cleanup"
    /\ UNCHANGED <<queue, records, idx, timestamp, record_timestamp, dtor, calls,
                   accepted, downstream, dequeues, preDtor, last, closed>>

\* if (on_thread_clenup) on_thread_clenup(); and the thread function ends.
ThreadCleanup ==
    /\ pc = "cleanup"
    /\ hooks' = [hooks EXCEPT !.cleanup = @ + 1]
    /\ pc' = "done"
    /\ UNCHANGED <<queue, records, idx, timestamp, record_timestamp, dtor, calls,
                   accepted, downstream, dequeues, preDtor, last, closed>>

\* ---------------------------------------------------------- specification

ThreadNext ==
    \/ ThreadInitialize
    \/ DequeueBatch
    \/ BatchStop
    \/ BatchFlush
    \/ BatchData
    \/ BatchEnd
    \/ Catch
    \/ ThreadCleanup

ProducerNext ==
    \/ \E p \in Producers : \E ts \in DataTimestamps : ProcessRecord(p, ts)
    \/ \E p \in Producers : Flush(p)

DtorNext ==
    \/ DtorEnqueue
    \/ DtorJoin

Next ==
    \/ ThreadNext
    \/ ProducerNext
    \/ DtorNext

Spec == Init /\ [][Next]_vars

\* The runs of the liveness claims: the same threads, with one timestamp for
\* the data records (which records are delivered does not depend on it).
FairTimestamps == {4}

FairProducerNext ==
    \/ \E p \in Producers : \E ts \in FairTimestamps : ProcessRecord(p, ts)
    \/ \E p \in Producers : Flush(p)

FairNext ==
    \/ ThreadNext
    \/ FairProducerNext
    \/ DtorNext

\* The scheduler runs a thread that can take a step: the background thread,
\* and the thread of the destructor. Producers call when they please.
FairSpec ==
    /\ Init
    /\ [][FairNext]_vars
    /\ WF_vars(ThreadNext)
    /\ WF_vars(DtorNext)

\* The scenario of the auto-flush: one producer gives three data records
\* with the timestamps t0, t0 + 0.5 s, t0 + 1.5 s (t0 = 2 s), each call
\* stamping the next timestamp not yet accepted; there are no flush records.
ScenarioTimestamps == <<4, 5, 7>>

ScenarioProducer ==
    /\ Len(SelectSeq(accepted, LAMBDA r : r.timestamp >= 2)) < Len(ScenarioTimestamps)
    /\ ProcessRecord(1,
          ScenarioTimestamps[Len(SelectSeq(accepted, LAMBDA r : r.timestamp >= 2)) + 1])

ScenarioNext ==
    \/ ThreadInitialize
    \/ DequeueBatch
    \/ BatchStop
    \/ BatchData
    \/ BatchEnd
    \/ Catch
    \/ ThreadCleanup
    \/ ScenarioProducer
    \/ DtorNext

ScenarioSpec == Init /\ [][ScenarioNext]_vars

\* The runs with records of any timestamp: ProcessRecord does not look at
\* the record it enqueues, so a producer can pass one stamped 0 or 1.
RawTimestamps == {0, 1, 4}

RawProducerNext ==
    \E p \in Producers : \E ts \in RawTimestamps : ProcessRecord(p, ts)

RawNext ==
    \/ ThreadNext
    \/ RawProducerNext
    \/ DtorNext

RawSpec == Init /\ [][RawNext]_vars

\* The runs in which the queue can be closed under the processor.
ClosedNext ==
    \/ ThreadNext
    \/ DequeueClosed
    \/ FairProducerNext
    \/ DtorNext
    \/ CloseQueue

ClosedSpec == Init /\ [][ClosedNext]_vars

\* The runs with a timestamp in the upper half of the unsigned range, where
\* the difference to a smaller timestamp wraps to a positive signed value.
WideTimestamps == {4, Modulus \div 2 + 12}

WideProducerNext ==
    \/ \E p \in Producers : \E ts \in WideTimestamps : ProcessRecord(p, ts)
    \/ \E p \in Producers : Flush(p)

WideNext ==
    \/ ThreadNext
    \/ WideProducerNext
    \/ DtorNext

WideSpec == Init /\ [][WideNext]_vars

\* ----------------------------------------------------------------- claims

AcceptedIds == SeqIds(accepted)

\* The record with this id was passed to the downstream chain, by
\* Processor::ProcessRecord or, for a flush record, by Processor::Flush.
Handled(id) ==
    \E i \in 1..Len(downstream) : downstream[i].id = id /\ ~downstream[i].auto

IsData(rec) == rec.timestamp >= 2

IsDataCall(c) == c.kind = "ProcessRecord"

\* The data records Enqueue accepted, in the order of acceptance.
AcceptedData == SelectSeq(accepted, IsData)

\* The data records passed to the downstream ProcessRecord, in order.
DeliveredData == SelectSeq(downstream, IsDataCall)

\* A downstream call failed: the catch block is entered or was.
Faulted == pc = "catch" \/ hooks.fatal > 0

C2_ShutdownTerminates ==
    (dtor = "join") ~> (dtor = "returned" \/ Faulted)

\* C3: when the thread has left the drain loop normally (no downstream call
\* failed) and has ended, on_thread_cleanup has been invoked exactly once.
C3_CleanupOnNormalExit ==
    (pc = "done" /\ ~Faulted) => hooks.cleanup = 1

\* C4: when a downstream call has failed and the fatal-error channel has
\* been invoked, it has been invoked exactly once and on_thread_cleanup has
\* not been invoked.
C4_FaultSkipsCleanup ==
    hooks.fatal > 0 => (hooks.fatal = 1 /\ hooks.cleanup = 0)

\* C5: the data records passed to the downstream ProcessRecord are the
\* first accepted data records, in the order of acceptance; none is passed
\* twice, and each producer's records are passed in that producer's call
\* order.
C5_FifoExactlyOnce ==
    /\ Len(DeliveredData) <= Len(AcceptedData)
    /\ \A i \in 1..Len(DeliveredData) : DeliveredData[i].id = AcceptedData[i].id
    /\ \A i, j \in 1..Len(DeliveredData) :
          i # j => DeliveredData[i].id # DeliveredData[j].id
    /\ \A i, j \in 1..Len(DeliveredData) :
          \A a, b \in 1..Len(accepted) :
             (/\ i < j
              /\ accepted[a].id = DeliveredData[i].id
              /\ accepted[b].id = DeliveredData[j].id)
             => /\ a < b
                /\ accepted[a].producer = accepted[b].producer
                      => accepted[a].id < accepted[b].id

C5_Witness ==
    /\ Len(DeliveredData) >= 2
    /\ Len(records) >= 2
    /\ \E a, b \in 1..Len(accepted) :
          /\ accepted[a].producer # accepted[b].producer
          /\ accepted[a].id = DeliveredData[1].id
          /\ accepted[b].id = DeliveredData[2].id

\* A stop record was accepted before the record with this id.
StopBefore(id) ==
    \E a, b \in 1..Len(accepted) :
       /\ a < b
       /\ accepted[a].timestamp = StopTimestamp
       /\ accepted[b].id = id

\* Every record accepted so far is settled: passed to the downstream chain,
\* or behind a stop record, or cut off by a failed downstream call.
AllSettled ==
    \A i \in 1..Len(accepted) :
       \/ accepted[i].timestamp = StopTimestamp
       \/ Handled(accepted[i].id)
       \/ StopBefore(accepted[i].id)
       \/ Faulted

\* C6: under fair scheduling, every record Enqueue accepted that no stop
\* record precedes is eventually passed to the downstream chain, unless a
\* downstream call fails (the records accepted are settled again and again,
\* and once settled a record stays so); and a thread waiting in Dequeue
\* while the queue holds a record eventually gets its batch.
C6_NoLostRecords ==
    /\ []<>AllSettled
    /\ (pc = "dequeue" /\ queue # <<>>) ~> (pc = "batch")

C6_Witness ==
    /\ dequeues >= 2
    /\ ~Faulted
    /\ dtor = "none"
    /\ \A id \in AcceptedIds : Handled(id)
    /\ Cardinality(AcceptedIds) >= 2

\* The step is a call of ProcessRecord or Flush by a producer.
ProducerStep == calls' = calls + 1

\* The step is a call of Enqueue: by ProcessRecord, Flush or the destructor.
EnqueueStep == ProducerStep \/ (dtor = "none" /\ dtor' = "join")

\* C7: the queue never holds more than Capacity records, and while it holds
\* Capacity records every Enqueue is rejected: the queue is left as it is
\* and ProcessRecord returns false.
C7_CapacityInvariant ==
    /\ [](Len(queue) <= Capacity)
    /\ [][(Len(queue) = Capacity /\ EnqueueStep)
            => /\ queue' = queue
               /\ accepted' = accepted
               /\ (ProducerStep /\ last'.op = "ProcessRecord")
                     => last'.ret = "false"]_vars

C7_Witness ==
    /\ Len(queue) = Capacity
    /\ last.op = "ProcessRecord"
    /\ last.ret = "false"
    /\ last.id \notin AcceptedIds

\* C8: a ProcessRecord at capacity returns false, leaves the queue and the
\* state of the consumer as they are and does not invoke the fatal-error
\* channel, and the rejected record is never passed to the downstream chain;
\* below capacity ProcessRecord returns true and the record is at the tail
\* of the queue.
C8_ProcessRecordRejection ==
    /\ [][(ProducerStep /\ last'.op = "ProcessRecord")
            => IF Len(queue) = Capacity
               THEN /\ last'.ret = "false"
                    /\ UNCHANGED <<queue, records, idx, pc, timestamp,
                                   record_timestamp, downstream, hooks, dequeues>>
               ELSE /\ last'.ret = "true"
                    /\ Len(queue') = Len(queue) + 1
                    /\ queue'[Len(queue')].id = last'.id
                    /\ SubSeq(queue', 1, Len(queue)) = queue]_vars
    /\ [](\A i \in 1..Len(downstream) :
             downstream[i].auto \/ downstream[i].id \in AcceptedIds)

C8_Witness ==
    /\ last.op = "ProcessRecord"
    /\ last.ret = "false"
    /\ Len(queue) = Capacity
    /\ pc = "batch"
    /\ idx <= Len(records)

\* C9 (as stated): a Flush whose flush record was rejected returns false.
C9_FlushReportsRejection ==
    (last.op = "Flush" /\ last.id \notin AcceptedIds) => last.ret = "false"

\* C9 (amended): a Flush at capacity leaves the queue as it is, its flush
\* record never reaches the downstream chain, and it returns nothing, as an
\* accepted Flush does: the caller cannot tell the two apart.
C9_FlushDropsSilently ==
    /\ [][(ProducerStep /\ last'.op = "Flush")
            => /\ last'.ret = "void"
               /\ downstream' = downstream
               /\ Len(queue) = Capacity => queue' = queue /\ accepted' = accepted]_vars
    /\ [](\A i \in 1..Len(downstream) :
             downstream[i].kind = "Flush"
                => downstream[i].auto \/ downstream[i].id \in AcceptedIds)

C9_Witness ==
    /\ last.op = "Flush"
    /\ last.id \notin AcceptedIds
    /\ Len(queue) = Capacity
    /\ last.ret = "void"

\* The thread has read a stop record of the batch: it is past it, or has
\* left the range-for at it.
StopRead ==
    /\ pc \notin {"start", "dequeue"}
    /\ \E i \in 1..Len(records) :
          /\ records[i].timestamp = StopTimestamp
          /\ i < idx \/ (i = idx /\ pc # "batch")

\* C10: once the thread has read a stop record, it never again calls the
\* downstream ProcessRecord or Flush, nor Dequeue, and stays ended.
C10_StopTerminality ==
    [][StopRead => /\ StopRead'
                   /\ pc' = "done"
                   /\ downstream' = downstream
                   /\ dequeues' = dequeues
                   /\ records' = records]_vars

C10_Witness ==
    /\ StopRead
    /\ idx < Len(records)
    /\ queue # <<>>
    /\ dtor = "join"

\* The downstream calls made for records (not those of the auto-flush).
IsRecordCall(c) == ~c.auto

RecordCalls == SelectSeq(downstream, IsRecordCall)

\* The position in downstream of the call made for the record id, 0 if none.
CallIndex(id) ==
    IF Handled(id)
    THEN CHOOSE i \in 1..Len(downstream) : downstream[i].id = id /\ ~downstream[i].auto
    ELSE 0

\* C11: for a data record A, a flush record F and a data record B accepted
\* in this order, the downstream Flush for F comes after the downstream
\* ProcessRecord(A) and before the downstream ProcessRecord(B): when B has
\* been passed so has F, earlier, and when F has been passed so has A,
\* earlier; and the call made for F is a Flush.
C11_FlushOrdering ==
    \A a, f, b \in 1..Len(accepted) :
       (/\ a < f
        /\ f < b
        /\ IsData(accepted[a])
        /\ accepted[f].timestamp = FlushTimestamp
        /\ IsData(accepted[b]))
       => /\ Handled(accepted[b].id)
             => /\ Handled(accepted[f].id)
                /\ CallIndex(accepted[f].id) < CallIndex(accepted[b].id)
          /\ Handled(accepted[f].id)
             => /\ Handled(accepted[a].id)
                /\ CallIndex(accepted[a].id) < CallIndex(accepted[f].id)
                /\ downstream[CallIndex(accepted[f].id)].kind = "Flush"

C11_Witness ==
    /\ Len(accepted) >= 3
    /\ IsData(accepted[1])
    /\ accepted[2].timestamp = FlushTimestamp
    /\ IsData(accepted[3])
    /\ Handled(accepted[3].id)
    /\ dequeues >= 2
    /\ CallIndex(accepted[1].id) < CallIndex(accepted[2].id)
    /\ CallIndex(accepted[2].id) < CallIndex(accepted[3].id)

\* The step ends a batch that was processed to its end: the auto-flush
\* period is handled (the flush is called, and returns or throws).
BatchEndStep == pc = "batch" /\ idx > Len(records) /\ pc' # pc

\* The step calls the downstream Flush of the auto-flush period.
AutoFlushCalled == downstream' # downstream \/ pc' = "catch"

\* The batch's maximum exceeds the cached maximum by more than one second.
ExceedsOneSecond(rt, cached) == rt - cached > TicksPerSecond

\* C12: at the end of a batch the downstream Flush is called exactly when
\* the batch's maximum timestamp minus the cached one exceeds one second
\* (so for a difference of 1.5 seconds), and the cached timestamp becomes
\* the batch's maximum.
C12_AutoFlushRule ==
    [][BatchEndStep
         => /\ AutoFlushCalled <=> ExceedsOneSecond(record_timestamp, timestamp)
            /\ pc' = "dequeue" => timestamp' = record_timestamp]_vars

\* The three records of the scenario have been accepted.
ScenarioGiven == Len(AcceptedData) = Len(ScenarioTimestamps)

\* A downstream Flush was called after the record id1 was processed and
\* before the record id2 was.
FlushBetween(id1, id2) ==
    \E i \in 1..Len(downstream) :
       /\ downstream[i].kind = "Flush"
       /\ Handled(id1)
       /\ CallIndex(id1) < i
       /\ Handled(id2) => i < CallIndex(id2)

\* C13: with the records t0, t0 + 0.5 s, t0 + 1.5 s, however they fall into
\* batches, no downstream Flush is called between the first record and the
\* second, and a downstream Flush has been called when the batch of the
\* third record has been processed to its end.
C13_AutoFlushScenario ==
    ScenarioGiven
    => /\ ~FlushBetween(AcceptedData[1].id, AcceptedData[2].id)
       /\ (Handled(AcceptedData[3].id) /\ pc = "dequeue")
             => \E i \in 1..Len(downstream) : downstream[i].kind = "Flush"

\* The state of the consumer: what only the background thread writes.
consumer == <<records, idx, pc, timestamp, record_timestamp, downstream, hooks, dequeues>>

\* The step is a step of the destructor.
DtorStep == dtor' # dtor

\* C14: the downstream ProcessRecord and Flush are called by the background
\* thread alone, one call in a step of its loop; a call of ProcessRecord or
\* Flush by a producer, and a step of the destructor, only enqueue: they
\* leave the downstream chain and the state of the consumer as they are.
C14_SingleConsumer ==
    [][/\ downstream' # downstream
          => /\ pc = "batch"
             /\ Len(downstream') = Len(downstream) + 1
             /\ SubSeq(downstream', 1, Len(downstream)) = downstream
             /\ UNCHANGED <<queue, calls, dtor, accepted, last>>
       /\ (ProducerStep \/ DtorStep) => UNCHANGED consumer]_vars

C14_Witness ==
    /\ Len(downstream) >= 2
    /\ \E i \in 1..Len(downstream) : downstream[i].kind = "Flush" /\ ~downstream[i].auto
    /\ \E i \in 1..Len(downstream) : downstream[i].kind = "ProcessRecord"
    /\ last.op = "Flush"
    /\ dtor = "join"

\* C15: on_thread_initialize is called exactly once, in the first step of
\* the background thread: never twice, and before the first Dequeue and
\* before every downstream call.
C15_InitializeOnce ==
    /\ [](hooks.initialize = IF pc = "start" THEN 0 ELSE 1)
    /\ []((dequeues > 0 \/ downstream # <<>>) => hooks.initialize = 1)
    /\ [][hooks'.initialize # hooks.initialize
            => /\ pc = "start"
               /\ dequeues = 0
               /\ downstream = <<>>
               /\ UNCHANGED <<queue, calls, dtor, dequeues, downstream>>]_vars

C15_Witness ==
    /\ hooks.initialize = 1
    /\ dequeues >= 2
    /\ Len(downstream) >= 2
    /\ pc = "done"

\* The step is a step of the range-for of the background thread.
BatchStep == InBatch /\ (pc' # pc \/ idx' # idx)

\* The record with this id, as Enqueue accepted it.
AcceptedRecord(id) == accepted[CHOOSE i \in 1..Len(accepted) : accepted[i].id = id]

\* C16: what the loop does with a record depends on its timestamp alone,
\* whoever enqueued it: timestamp 0 ends the loop and nothing is forwarded;
\* timestamp 1 makes one downstream Flush and no ProcessRecord; a timestamp
\* >= 2 makes one downstream ProcessRecord of that record (unless the call
\* throws); and no record is forwarded twice.
C16_SentinelClassification ==
    /\ [][BatchStep
            => IF records[idx].timestamp = 0
               THEN pc' = "done" /\ downstream' = downstream
               ELSE \/ pc' = "catch" /\ downstream' = downstream
                    \/ /\ pc' = pc
                       /\ idx' = idx + 1
                       /\ downstream' = Append(downstream,
                             [kind |-> IF records[idx].timestamp = 1
                                       THEN "Flush" ELSE "ProcessRecord",
                              id |-> records[idx].id,
                              timestamp |-> records[idx].timestamp,
                              auto |-> FALSE])]_vars
    /\ [](\A i, j \in 1..Len(downstream) :
             (i # j /\ ~downstream[i].auto /\ ~downstream[j].auto)
                => downstream[i].id # downstream[j].id)
    /\ [](\A i \in 1..Len(downstream) :
             ~downstream[i].auto
                => /\ downstream[i].id \in AcceptedIds
                   /\ AcceptedRecord(downstream[i].id).timestamp # 0
                   /\ downstream[i].kind = "Flush"
                         <=> AcceptedRecord(downstream[i].id).timestamp = 1)

\* A producer's record stamped 1 has made a downstream Flush, and a
\* producer's record stamped 0 has ended the loop, the destructor not begun.
C16_Witness ==
    /\ dtor = "none"
    /\ pc = "done"
    /\ idx <= Len(records)
    /\ records[idx].timestamp = 0
    /\ records[idx].producer \in Producers
    /\ last.op = "ProcessRecord"
    /\ \E i \in 1..Len(downstream) : downstream[i].kind = "Flush" /\ ~downstream[i].auto
    /\ \E i \in 1..Len(downstream) : downstream[i].kind = "ProcessRecord"

\* Dequeue returns false to the thread in this step.
DequeueFalseStep == pc = "dequeue" /\ queue = <<>> /\ closed /\ pc' # pc

\* The thread has ended on a false Dequeue: no record of its buffer is
\* pending, and the fatal-error channel was never called.
ClosedExit == pc = "done" /\ idx > Len(records) /\ hooks.fatal = 0

\* C17: when Dequeue returns false, the loop ends: the thread function
\* returns without calling the fatal-error channel, and the downstream
\* ProcessRecord and Flush are not called, in that step or ever after.
C17_ClosedQueueExit ==
    /\ [][DequeueFalseStep
            => /\ pc' = "done"
               /\ downstream' = downstream
               /\ hooks'.fatal = hooks.fatal
               /\ dequeues' = dequeues]_vars
    /\ [][ClosedExit
            => /\ pc' = "done"
               /\ downstream' = downstream
               /\ hooks'.fatal = 0]_vars

\* The thread has ended on a false Dequeue after forwarding records, and no
\* stop record was ever accepted.
C17_Witness ==
    /\ ClosedExit
    /\ closed
    /\ queue = <<>>
    /\ downstream # <<>>
    /\ \A i \in 1..Len(accepted) : accepted[i].timestamp # StopTimestamp

\* C18: at the end of a batch whose latest data timestamp is at or below
\* the cached timestamp (a batch of flush records alone has latest 0), the
\* auto-flush step does not call the downstream Flush, and the cached
\* timestamp becomes the latest of the batch.
C18_NoAutoFlushAtOrBelowCache ==
    [][(BatchEndStep /\ record_timestamp <= timestamp)
          => /\ ~AutoFlushCalled
             /\ timestamp' = record_timestamp]_vars

\* The thread reads a stop record in this step.
StopStep ==
    /\ InBatch
    /\ records[idx].timestamp = StopTimestamp
    /\ pc' # pc \/ idx' # idx

\* C19: the step that reads a stop record ends the thread function without
\* the auto-flush step and without caching the batch's timestamp: the
\* downstream Flush is not called and the cached timestamp stays, then and
\* ever after, whatever the timestamps of the batch's data records.
C19_StopSkipsAutoFlush ==
    /\ [][StopStep
            => /\ pc' = "done"
               /\ downstream' = downstream
               /\ timestamp' = timestamp
               /\ record_timestamp' = record_timestamp]_vars
    /\ [][StopRead => (downstream' = downstream /\ timestamp' = timestamp)]_vars

\* The stop record was read right after a data record of its batch, whose
\* timestamp is more than a second past the cached one; that record's
\* ProcessRecord is the last downstream call.
C19_Witness ==
    /\ pc = "done"
    /\ StopRead
    /\ idx >= 2
    /\ idx <= Len(records)
    /\ IsData(records[idx - 1])
    /\ AutoFlushDue(record_timestamp, timestamp)
    /\ downstream # <<>>
    /\ downstream[Len(downstream)].kind = "ProcessRecord"
    /\ downstream[Len(downstream)].id = records[idx - 1].id

====
